---- MODULE Spec2Model ----
(***************************************************************************)
(* Model of Mongine/analysis_util_01.py: the base class MMM (scaling,      *)
(* lazy model-graph construction, fitting, plotting) and its three         *)
(* variants MMMChannelsStraight, MMMChannelsStraightConfounder and         *)
(* MMMFbGoogleMetrics.                                                     *)
(*                                                                         *)
(* Numbers.  pandas/xarray columns hold binary floating-point numbers.     *)
(* A number is a pair <<n, d>> with d >= 0 in lowest terms, standing for   *)
(* n/d; <<1,0>> is +inf, <<-1,0>> is -inf and <<0,0>> is NaN, which is     *)
(* what numpy's division by zero yields (no exception is raised).  Every   *)
(* arithmetic operation rounds its exact result to Precision significant   *)
(* bits, ties to even, as IEEE 754 does (with 53 bits); the exponent range *)
(* is not modelled, so there is no overflow or underflow.                  *)
(***************************************************************************)
EXTENDS Integers, Sequences, FiniteSets, TLC

\* significant bits of the floating-point format of the model
Precision == 7

Abs(x) == IF x < 0 THEN -x ELSE x

Sign(x) == IF x < 0 THEN -1 ELSE IF x > 0 THEN 1 ELSE 0

RECURSIVE GCD(_, _)
GCD(a, b) == IF b = 0 THEN a ELSE GCD(b, a % b)

RECURSIVE Pow2(_)
Pow2(k) == IF k = 0 THEN 1 ELSE 2 * Pow2(k - 1)

\* the number n/d in lowest terms (d >= 0)
Norm(n, d) ==
    IF d = 0 THEN <<Sign(n), 0>>
    ELSE LET g == GCD(Abs(n), d) IN <<Sign(n) * (Abs(n) \div g), d \div g>>

Num(k) == <<k, 1>>
NaN == <<0, 0>>
Inf == <<1, 0>>

IsFinite(x) == x[2] # 0
IsNaN(x) == x = NaN

\* a / d rounded to the nearest integer, ties to the even one (a >= 0, d > 0)
RoundHalfEven(a, d) ==
    LET m == a \div d
        r == a % d
    IN  IF 2 * r > d \/ (2 * r = d /\ m % 2 = 1) THEN m + 1 ELSE m

\* the least j with a * 2^j >= lim (a > 0)
RECURSIVE ShiftUp(_, _)
ShiftUp(a, lim) == IF a >= lim THEN 0 ELSE 1 + ShiftUp(2 * a, lim)

\* the exact value n/d rounded to Precision significant bits
Fl(n, d) ==
    IF d = 0 \/ n = 0 THEN Norm(n, d)
    ELSE LET a  == Abs(n)
             hi == Pow2(Precision)
             lo == Pow2(Precision - 1)
         IN  IF a >= hi * d
             THEN LET j == ShiftUp(d, (a \div hi) + 1)
                      s == Pow2(j)
                  IN  Norm(Sign(n) * RoundHalfEven(a, d * s) * s, 1)
             ELSE LET j == ShiftUp(a, lo * d)
                      s == Pow2(j)
                  IN  Norm(Sign(n) * RoundHalfEven(a * s, d), s)

\* x * y: 0 * inf and anything with NaN is NaN
FMul(x, y) == Fl(x[1] * y[1], x[2] * y[2])

\* x / y: finite / 0 is +-inf, 0 / 0 and inf / inf are NaN
FDiv(x, y) ==
    LET n == x[1] * y[2]
        d == x[2] * y[1]
    IN  IF y[1] < 0 THEN Fl(-n, -d) ELSE Fl(n, d)

\* x + y: inf + (-inf) and anything with NaN is NaN
FAdd(x, y) ==
    IF IsFinite(x) /\ IsFinite(y) THEN Fl(x[1] * y[2] + y[1] * x[2], x[2] * y[2])
    ELSE IF IsNaN(x) \/ IsNaN(y) THEN NaN
    ELSE IF IsFinite(x) THEN y
    ELSE IF IsFinite(y) \/ x = y THEN x
    ELSE NaN

\* x > y; every comparison with NaN is false
FGt(x, y) ==
    IF IsNaN(x) \/ IsNaN(y) THEN FALSE
    ELSE IF IsFinite(x) /\ IsFinite(y) THEN x[1] * y[2] > y[1] * x[2]
    ELSE IF IsFinite(x) THEN y[1] < 0
    ELSE IF IsFinite(y) THEN x[1] > 0
    ELSE x[1] > y[1]

(***************************************************************************)
(* Bounds of the model.                                                    *)
(***************************************************************************)
\* rows of the generated observation tables
MaxRows == 2
\* cells of the raw table the caller overwrites after construction
MaxMutations == 1
\* direct calls of define_model that build a graph
MaxDefine == 2

(***************************************************************************)
(* Optional values: None is the empty sequence, Some(x) is <<x>>.          *)
(***************************************************************************)
None == <<>>
Some(x) == <<x>>

(***************************************************************************)
(* Observation tables: a function from column names to columns, a column   *)
(* being a sequence of numbers.  The date column plays no part in any      *)
(* computation but the plots' x axis and is left out.                      *)
(***************************************************************************)
salesname == "sales"

Nums(s) == [i \in 1..Len(s) |-> Num(s[i])]

RECURSIVE Insert(_, _)
Insert(x, s) ==
    IF s = <<>> THEN <<x>>
    ELSE IF FGt(x, Head(s)) THEN <<Head(s)>> \o Insert(x, Tail(s))
    ELSE <<x>> \o s

RECURSIVE Sorted(_)
Sorted(s) == IF s = <<>> THEN <<>> ELSE Insert(Head(s), Sorted(Tail(s)))

\* pandas Series.median(): the middle value of the sorted column, the mean
\* of the two middle values when the length is even, NaN when it is empty
Median(col) ==
    LET s == Sorted(col)
        n == Len(s)
    IN  IF n = 0 THEN NaN
        ELSE IF n % 2 = 1 THEN s[(n + 1) \div 2]
        ELSE FDiv(FAdd(s[n \div 2], s[n \div 2 + 1]), Num(2))

\* a set_scaling whose comparison is dropped: the last channel's median wins
ChannelScaleFrom_LastWins(acc, raw, chans) ==
    IF chans = <<>> THEN acc ELSE Median(raw[chans[Len(chans)]])

\* lines 32-35: the running maximum of the channels' medians, from 0
RECURSIVE ChannelScaleFrom(_, _, _)
ChannelScaleFrom(acc, raw, chans) ==
    IF chans = <<>> THEN acc
    ELSE LET m == Median(raw[Head(chans)])
         IN  ChannelScaleFrom(IF FGt(m, acc) THEN m ELSE acc, raw, Tail(chans))

ChannelScale(raw, chans) == ChannelScaleFrom(Num(0), raw, chans)

DivColumn(col, by) == [i \in 1..Len(col) |-> FDiv(col[i], by)]

\* lines 36-37: each named channel's column divided by the channel scale
RECURSIVE ScaleChannels(_, _, _)
ScaleChannels(tbl, chans, cs) ==
    IF chans = <<>> THEN tbl
    ELSE ScaleChannels([tbl EXCEPT ![Head(chans)] = DivColumn(@, cs)],
                       Tail(chans), cs)

\* a set_scaling that takes the sales column's maximum for its median
SalesScale_Max(scaledchannels) ==
    LET s == Sorted(scaledchannels[salesname]) IN s[Len(s)]

\* line 39: the median of the sales column of the table whose channel
\* columns were divided already
SalesScale(scaledchannels) == Median(scaledchannels[salesname])

\* set_scaling as a function of the raw table and the channel names
Scaling(raw, chans) ==
    LET cs == ChannelScale(raw, chans)
        t1 == ScaleChannels(raw, chans, cs)
        ss == SalesScale(t1)
    IN  [channelscale |-> cs,
         salesscale   |-> ss,
         data_scaled  |-> [t1 EXCEPT ![salesname] = DivColumn(@, ss)]]

(***************************************************************************)
(* State of one model instance, and what its last call did.                *)
(***************************************************************************)
VARIABLES
    cls,                \* the instance's class
    allowIntercept,     \* MMMChannelsStraight's flags
    allowAdstockAndSat,
    channelnames,
    data_raw,
    data_scaled,
    channelscale,
    salesscale,
    model,              \* None, or Some(the graph define_model built)
    fittedparmnames,    \* the list of names (empty on the base class, which has none)
    idata,              \* None while the attribute is unset, or Some(posterior)
    ret,                \* what the last call returned or rendered, if anything
    raised,             \* the exception the last call raised, or "none"
    lastop,             \* the last call
    ndefine,            \* graphs built so far
    nfitbuilds,         \* graphs built by fit
    nmut                \* cells of the raw table overwritten so far

vars == <<cls, allowIntercept, allowAdstockAndSat, channelnames, data_raw,
          data_scaled, channelscale, salesscale, model, fittedparmnames, idata,
          ret, raised, lastop, ndefine, nfitbuilds, nmut>>

config == <<cls, allowIntercept, allowAdstockAndSat, channelnames>>
scaled == <<data_scaled, channelscale, salesscale>>

Classes == {"MMM", "MMMChannelsStraight", "MMMChannelsStraightConfounder",
            "MMMFbGoogleMetrics"}

\* the names list each constructor leaves (lines 115, 204, 277)
InitialParmNames(c) ==
    CASE c = "MMMChannelsStraight" -> <<"beta", "sigma">>
      [] c = "MMMChannelsStraightConfounder" -> <<"beta", "sigma">>
      [] c = "MMMFbGoogleMetrics" -> <<"beta_fb", "beta_google", "intercept", "sigma">>
      [] OTHER -> <<>>

\* __init__ of class c: MMM.__init__ and the subclass's own assignments.
\* MMMChannelsStraight calls set_scaling a second time (line 116), which
\* computes the same values from the same raw table.
Construct(c, data, chans, ai, aas) ==
    /\ cls = c
    /\ allowIntercept = ai
    /\ allowAdstockAndSat = aas
    /\ channelnames = chans
    /\ data_raw = data
    /\ LET sc == Scaling(data, chans)
       IN  /\ data_scaled = sc.data_scaled
           /\ channelscale = sc.channelscale
           /\ salesscale = sc.salesscale
    /\ model = None
    /\ fittedparmnames = InitialParmNames(c)
    /\ idata = None
    /\ ret = None
    /\ raised = "none"
    /\ lastop = "init"
    /\ ndefine = 0
    /\ nfitbuilds = 0
    /\ nmut = 0

\* set_scaling()
SetScaling ==
    /\ LET sc == Scaling(data_raw, channelnames)
       IN  /\ data_scaled' = sc.data_scaled
           /\ channelscale' = sc.channelscale
           /\ salesscale' = sc.salesscale
    /\ ret' = None
    /\ raised' = "none"
    /\ lastop' = "set_scaling"
    /\ UNCHANGED <<config, data_raw, model, fittedparmnames, idata, ndefine,
                   nfitbuilds, nmut>>

(***************************************************************************)
(* define_model.  A graph records the names pm.Model was given: the data   *)
(* containers, the free random variables (priors), the deterministic       *)
(* nodes and the observed random variables, and an id that tells one built *)
(* graph from the next.  The tables are taken to hold every column the     *)
(* variant reads.                                                          *)
(***************************************************************************)
Contains(seq, x) == \E i \in DOMAIN seq : seq[i] = x

Count(seq, x) == Cardinality({i \in DOMAIN seq : seq[i] = x})

\* lines 145-148 without the membership test
InterceptParmNames_Unguarded(names, ai) ==
    IF ai THEN names \o <<"intercept">> ELSE names

\* lines 145-150: 'intercept' joins the names unless it is among them
InterceptParmNames(names, ai) ==
    IF ai /\ ~Contains(names, "intercept") THEN names \o <<"intercept">> ELSE names

\* lines 158-163: 'alpha' and 'lam' join the names on every call
AdstockParmNames(names, aas) ==
    IF aas THEN (names \o <<"alpha">>) \o <<"lam">> ELSE names

\* lines 144-163: the priors of the straight model
StraightFreeRVs(ai, aas) ==
    (IF ai THEN {"intercept"} ELSE {}) \cup {"sigma", "beta"}
        \cup (IF aas THEN {"alpha", "lam"} ELSE {})

\* MMMChannelsStraight.define_model (lines 134-193)
StraightGraph(id, ai, aas) ==
    [id            |-> id,
     data          |-> {"spend"},
     free          |-> StraightFreeRVs(ai, aas),
     deterministic |-> (IF aas THEN {"channel_adstock", "channel_adstock_saturated"}
                        ELSE {}) \cup {"mu_channels", "mu_y"},
     observed      |-> {"y"}]

\* MMMChannelsStraightConfounder.define_model (lines 221-265)
ConfounderGraph(id) ==
    [id            |-> id,
     data          |-> {"spend_fb"},
     free          |-> {"sigma", "intercept", "beta_fb", "beta_google",
                        "beta_fb_google", "spend_google_0", "sigma_google"},
     deterministic |-> {"mu_fb", "spend_google_fb", "mu_google", "mu_channels",
                        "mu_y"},
     observed      |-> {"spend_google", "y"}]

ConfounderParmNames ==
    <<"beta_fb", "beta_google", "beta_fb_google", "spend_google_0", "sigma",
      "intercept", "sigma_google">>

\* MMMFbGoogleMetrics.define_model (lines 292-319)
MetricsGraph(id) ==
    [id            |-> id,
     data          |-> {"fb_in", "google_in"},
     free          |-> {"intercept", "sigma", "beta_fb", "beta_google"},
     deterministic |-> {"mu_channels", "mu_y"},
     observed      |-> {"y"}]

\* the graph the class's define_model builds as its id-th
GraphOf(id) ==
    CASE cls = "MMMChannelsStraight" ->
            StraightGraph(id, allowIntercept, allowAdstockAndSat)
      [] cls = "MMMChannelsStraightConfounder" -> ConfounderGraph(id)
      [] cls = "MMMFbGoogleMetrics" -> MetricsGraph(id)

\* the names list after the class's define_model
ParmNamesAfterDefine ==
    CASE cls = "MMMChannelsStraight" ->
            AdstockParmNames(InterceptParmNames(fittedparmnames, allowIntercept),
                             allowAdstockAndSat)
      [] cls = "MMMChannelsStraightConfounder" -> ConfounderParmNames
      [] cls = "MMMFbGoogleMetrics" -> fittedparmnames

\* a base define_model that returns silently, so that fit goes on to enter
\* "with None"
AbstractDefineModelError_WithNone == "TypeError"

\* line 46: MMM.define_model raises
AbstractDefineModelError == "NotImplementedError"

\* line 60: MMM.get_back_scaled_idata raises
AbstractBackScalingError == "NotImplementedError"

\* what every failing call leaves: the exception, and the instance as it was
Raise(op, exc) ==
    /\ raised' = exc
    /\ lastop' = op
    /\ ret' = None
    /\ UNCHANGED <<config, data_raw, scaled, model, fittedparmnames, idata,
                   ndefine, nfitbuilds, nmut>>

\* define_model(), called by the user
DefineModel ==
    IF cls = "MMM" THEN Raise("define_model", AbstractDefineModelError)
    ELSE /\ ndefine < MaxDefine
         /\ ndefine' = ndefine + 1
         /\ model' = Some(GraphOf(ndefine + 1))
         /\ fittedparmnames' = ParmNamesAfterDefine
         /\ ret' = None
         /\ raised' = "none"
         /\ lastop' = "define_model"
         /\ UNCHANGED <<config, data_raw, scaled, idata, nfitbuilds, nmut>>

(***************************************************************************)
(* fit.  pm.sample is the external sampler: it either raises or returns a  *)
(* posterior, one value per free random variable of the graph (a vector    *)
(* over the channels for the variables declared with dims "channels").     *)
(* One chain of one draw stands for the posterior: every operation on it   *)
(* is elementwise.                                                         *)
(***************************************************************************)
BetaVals == {Num(0), <<45, 32>>, Num(2)}
InterceptVals == {Num(1)}
SigmaVals == {<<1, 2>>}

PerChannel(vals) == [1..Len(channelnames) -> vals]

Restrict(f, S) == [n \in S |-> f[n]]

\* the posteriors pm.sample may return for graph g
Posteriors(g) ==
    IF cls = "MMMChannelsStraight"
    THEN {Restrict([beta |-> b, sigma |-> s, intercept |-> i,
                    alpha |-> [k \in 1..Len(channelnames) |-> <<1, 4>>],
                    lam |-> [k \in 1..Len(channelnames) |-> Num(3)]], g.free) :
            b \in PerChannel(BetaVals), s \in SigmaVals, i \in InterceptVals}
    ELSE {Restrict([beta_fb |-> b[1], beta_google |-> b[2], sigma |-> s,
                    intercept |-> i, beta_fb_google |-> <<1, 2>>,
                    spend_google_0 |-> <<1, 4>>, sigma_google |-> <<1, 8>>], g.free) :
            b \in [1..2 -> BetaVals], s \in SigmaVals, i \in InterceptVals}

\* a fit that rebuilds the graph on every call
FitBuilds_Always == TRUE

\* line 53: fit builds the graph only when there is none
FitBuilds == model = None

\* fit(): lines 53-56
Fit ==
    IF FitBuilds /\ cls = "MMM" THEN Raise("fit", AbstractDefineModelError)
    ELSE LET builds == FitBuilds
             g == IF builds THEN GraphOf(ndefine + 1) ELSE model[1]
         IN  /\ model' = Some(g)
             /\ ndefine' = IF builds THEN ndefine + 1 ELSE ndefine
             /\ nfitbuilds' = IF builds THEN nfitbuilds + 1 ELSE nfitbuilds
             /\ fittedparmnames' = IF builds THEN ParmNamesAfterDefine
                                   ELSE fittedparmnames
             /\ \/ /\ raised' = "SamplingError"
                   /\ idata' = idata
                \/ /\ raised' = "none"
                   /\ idata' \in {Some(p) : p \in Posteriors(g)}
             /\ ret' = None
             /\ lastop' = "fit"
             /\ UNCHANGED <<config, data_raw, scaled, nmut>>

(***************************************************************************)
(* get_back_scaled_idata: a copy of the posterior with the scale factors   *)
(* applied per parameter.  A * B / C is (A * B) / C, as Python groups it.  *)
(***************************************************************************)
\* x * by and x / by for a vector x over the channels (xarray broadcasts)
VecTimes(x, by) == [k \in DOMAIN x |-> FMul(x[k], by)]
VecOver(x, by) == [k \in DOMAIN x |-> FDiv(x[k], by)]

\* MMMChannelsStraight.get_back_scaled_idata (lines 126-131)
BackScaledStraight(p, ai, ss, cs) ==
    LET p1 == IF ai THEN [p EXCEPT !["intercept"] = FMul(@, ss)] ELSE p
        p2 == [p1 EXCEPT !["sigma"] = FMul(@, cs)]
    IN  [p2 EXCEPT !["beta"] = VecOver(VecTimes(@, ss), cs)]

\* a confounder back-scaling that forgets the division by the channel scale
BackScaledConfounder_SalesOnly(p, ss, cs) ==
    [p EXCEPT !["intercept"] = FMul(@, ss),
              !["sigma"] = FMul(@, cs),
              !["beta_google"] = FMul(@, ss),
              !["beta_fb"] = FMul(@, ss),
              !["spend_google_0"] = FMul(@, cs),
              !["sigma_google"] = FMul(@, cs)]

\* MMMChannelsStraightConfounder.get_back_scaled_idata (lines 211-218)
BackScaledConfounder(p, ss, cs) ==
    [p EXCEPT !["intercept"] = FMul(@, ss),
              !["sigma"] = FMul(@, cs),
              !["beta_google"] = FDiv(FMul(@, ss), cs),
              !["beta_fb"] = FDiv(FMul(@, ss), cs),
              !["spend_google_0"] = FMul(@, cs),
              !["sigma_google"] = FMul(@, cs)]

\* a metrics back-scaling that scales sigma by the sales scale
BackScaledMetrics_SigmaBySales(p, ss, cs) ==
    [p EXCEPT !["intercept"] = FMul(@, ss),
              !["sigma"] = FMul(@, ss),
              !["beta_fb"] = FMul(@, ss),
              !["beta_google"] = FMul(@, ss)]

\* MMMFbGoogleMetrics.get_back_scaled_idata (lines 284-289)
BackScaledMetrics(p, ss, cs) ==
    [p EXCEPT !["intercept"] = FMul(@, ss),
              !["sigma"] = FMul(@, cs),
              !["beta_fb"] = FMul(@, ss),
              !["beta_google"] = FMul(@, ss)]

\* the class's back-scaling of posterior p
BackScaled(p) ==
    CASE cls = "MMMChannelsStraight" ->
            BackScaledStraight(p, allowIntercept, salesscale, channelscale)
      [] cls = "MMMChannelsStraightConfounder" ->
            BackScaledConfounder(p, salesscale, channelscale)
      [] cls = "MMMFbGoogleMetrics" ->
            BackScaledMetrics(p, salesscale, channelscale)

\* a get_back_scaled_idata that scales the stored posterior in place
IdataAfterBackScaling_InPlace(p) == Some(BackScaled(p))

\* lines 126, 211, 284: the scaling is applied to a copy, the stored
\* posterior stays as it is
IdataAfterBackScaling(p) == Some(p)

\* get_back_scaled_idata()
GetBackScaledIdata ==
    IF cls = "MMM" THEN Raise("get_back_scaled_idata", AbstractBackScalingError)
    ELSE IF idata = None THEN Raise("get_back_scaled_idata", "AttributeError")
    ELSE /\ ret' = Some(BackScaled(idata[1]))
         /\ idata' = IdataAfterBackScaling(idata[1])
         /\ raised' = "none"
         /\ lastop' = "get_back_scaled_idata"
         /\ UNCHANGED <<config, data_raw, scaled, model, fittedparmnames,
                        ndefine, nfitbuilds, nmut>>

\* plot_parm_dist(original_scale): lines 100-106.  The chart holds one
\* marginal per listed name, taken from the back-scaled posterior whatever
\* original_scale is.
PlotParmDist ==
    IF cls = "MMM" THEN Raise("plot_parm_dist", AbstractBackScalingError)
    ELSE IF idata = None THEN Raise("plot_parm_dist", "AttributeError")
    ELSE LET bs == BackScaled(idata[1])
         IN  IF \E k \in DOMAIN fittedparmnames : fittedparmnames[k] \notin DOMAIN bs
             THEN /\ idata' = IdataAfterBackScaling(idata[1])
                  /\ raised' = "KeyError"
                  /\ ret' = None
                  /\ lastop' = "plot_parm_dist"
                  /\ UNCHANGED <<config, data_raw, scaled, model,
                                 fittedparmnames, ndefine, nfitbuilds, nmut>>
             ELSE /\ idata' = IdataAfterBackScaling(idata[1])
                  /\ raised' = "none"
                  /\ ret' = Some([k \in DOMAIN fittedparmnames |->
                                    [name  |-> fittedparmnames[k],
                                     value |-> bs[fittedparmnames[k]]]])
                  /\ lastop' = "plot_parm_dist"
                  /\ UNCHANGED <<config, data_raw, scaled, model,
                                 fittedparmnames, ndefine, nfitbuilds, nmut>>

(***************************************************************************)
(* plot_posterior_predictive: the graph's node mu_y evaluated at the       *)
(* posterior, row by row.  geometric_adstock and logistic_saturation are   *)
(* external transformations (an exponential among them) and stay           *)
(* uninterpreted: with adstock/saturation on, mu_y is the token "opaque".  *)
(***************************************************************************)
RECURSIVE Dot(_, _, _, _)
\* sum over the channels k..Len of the row's scaled spend times beta
Dot(tbl, r, beta, k) ==
    IF k = 0 THEN Num(0)
    ELSE FAdd(Dot(tbl, r, beta, k - 1), FMul(tbl[channelnames[k]][r], beta[k]))

\* lines 186-189
MuYStraight(p, tbl, r) ==
    LET intercept == IF allowIntercept THEN p.intercept ELSE Num(0)
        mu_channels == Dot(tbl, r, p.beta, Len(channelnames))
    IN  FAdd(intercept, mu_channels)

\* lines 243-261
MuYConfounder(p, tbl, r) ==
    LET mu_fb == FMul(p.beta_fb, tbl["spend_fb"][r])
        mu_google == FMul(p.beta_google, tbl["spend_google"][r])
        mu_channels == FAdd(FAdd(p.intercept, mu_fb), mu_google)
    IN  FAdd(p.intercept, mu_channels)

\* lines 300-315, with the default metric columns of line 272
MuYMetrics(p, tbl, r) ==
    LET mu_channels == FAdd(FMul(tbl["clicks_fb"][r], p.beta_fb),
                            FMul(tbl["clicks_google"][r], p.beta_google))
    IN  FAdd(p.intercept, mu_channels)

MuY(p, tbl, r) ==
    CASE cls = "MMMChannelsStraight" -> MuYStraight(p, tbl, r)
      [] cls = "MMMChannelsStraightConfounder" -> MuYConfounder(p, tbl, r)
      [] cls = "MMMFbGoogleMetrics" -> MuYMetrics(p, tbl, r)

Rows == 1..Len(data_raw[salesname])

\* plot_posterior_predictive(original_scale): lines 62-98.  Entering
\* "with None" raises AttributeError or TypeError, by the Python version.
PlotPosteriorPredictive ==
    \E original_scale \in BOOLEAN :
        IF model = None
        THEN \E exc \in {"AttributeError", "TypeError"} :
                Raise("plot_posterior_predictive", exc)
        ELSE IF idata = None
        THEN Raise("plot_posterior_predictive", "AttributeError")
        ELSE LET scale == IF original_scale THEN salesscale ELSE Num(1)
                 opaque == cls = "MMMChannelsStraight" /\ allowAdstockAndSat
                 mu_y == [r \in Rows |-> MuY(idata[1], data_scaled, r)]
             IN  /\ ret' = IF opaque THEN Some([mu_y |-> "opaque", line |-> "opaque"])
                           ELSE Some([mu_y |-> mu_y,
                                      line |-> [r \in Rows |-> FMul(mu_y[r], scale)]])
                 /\ raised' = "none"
                 /\ lastop' = "plot_posterior_predictive"
                 /\ UNCHANGED <<config, data_raw, scaled, model, fittedparmnames,
                                idata, ndefine, nfitbuilds, nmut>>

(***************************************************************************)
(* The specification of an instance's life: constructed from a table, then *)
(* any sequence of calls.                                                  *)
(***************************************************************************)
Table(fb, google, cfb, cgoogle, sales) ==
    [spend_fb |-> Nums(fb), spend_google |-> Nums(google),
     clicks_fb |-> Nums(cfb), clicks_google |-> Nums(cgoogle),
     sales |-> Nums(sales)]

\* channel scales 3, 1 and 0, sales scales 5, 3 and 2
Tables ==
    {Table(<<2, 4>>, <<1, 1>>, <<7, 9>>, <<2, 6>>, <<4, 6>>),
     Table(<<1, 1, 1>>, <<0, 1, 2>>, <<1, 2, 3>>, <<3, 2, 1>>, <<3, 9, 1>>),
     Table(<<0>>, <<0>>, <<4>>, <<5>>, <<2>>)}

Init ==
    \E c \in Classes, data \in Tables, ai \in BOOLEAN, aas \in BOOLEAN :
        /\ c # "MMMChannelsStraight" => ~ai /\ ~aas
        /\ Construct(c, data, <<"spend_fb", "spend_google">>, ai, aas)

Next ==
    \/ SetScaling
    \/ DefineModel
    \/ Fit
    \/ GetBackScaledIdata
    \/ PlotParmDist
    \/ PlotPosteriorPredictive

Spec == Init /\ [][Next]_vars

(***************************************************************************)
(* The scaling specification: tables drawn from bounded sets, a caller     *)
(* that overwrites cells of the table it passed in (data_raw is a          *)
(* reference to the caller's table) and calls set_scaling again.           *)
(***************************************************************************)
ChanVals == {Num(0), Num(3)}
SalesVals == {Num(2), Num(5)}

Columns(vals, n) == [1..n -> vals]

SmallTables ==
    UNION {[spend_a : Columns(ChanVals, n), spend_b : Columns(ChanVals, n),
            sales : Columns({Num(2)}, n)] : n \in 1..MaxRows}

\* ten-row columns: two with median 100 and one with median 90, and a
\* sales column with median 500
TenRowTables ==
    [spend_a : {Nums(<<100, 80, 120, 100, 90, 110, 100, 100, 70, 127>>),
                Nums(<<90, 60, 70, 72, 80, 100, 104, 110, 112, 120>>)},
     spend_b : {Nums(<<96, 104, 60, 70, 80, 90, 110, 120, 124, 112>>)},
     sales   : {Nums(<<496, 504, 400, 448, 480, 512, 520, 600, 384, 640>>)}]

ScalingTables == SmallTables \cup TenRowTables

ScalingChannelNames == {<<"spend_a", "spend_b">>, <<"spend_b">>}

InitScaling ==
    \E data \in ScalingTables, chans \in ScalingChannelNames :
        Construct("MMM", data, chans, FALSE, FALSE)

\* the caller overwrites one cell of the table
MutateRaw ==
    /\ nmut < MaxMutations
    /\ \E c \in DOMAIN data_raw, i \in 1..Len(data_raw[salesname]) :
         \E v \in (IF c = salesname THEN SalesVals ELSE ChanVals) :
            /\ data_raw[c][i] # v
            /\ data_raw' = [data_raw EXCEPT ![c][i] = v]
    /\ nmut' = nmut + 1
    /\ ret' = None
    /\ raised' = "none"
    /\ lastop' = "mutate_raw"
    /\ UNCHANGED <<config, scaled, model, fittedparmnames, idata, ndefine,
                   nfitbuilds>>

NextScaling == SetScaling \/ MutateRaw

SpecScaling == InitScaling /\ [][NextScaling]_vars

(***************************************************************************)
(* Claims about scaling (checked under SpecScaling).                       *)
(***************************************************************************)
\* the data-model invariant: a non-empty channel list whose columns hold
\* non-negative finite numbers
DataModelInvariant ==
    /\ channelnames # <<>>
    /\ \A k \in DOMAIN channelnames : \A i \in DOMAIN data_raw[channelnames[k]] :
         LET x == data_raw[channelnames[k]][i] IN IsFinite(x) /\ x[1] >= 0

ChannelMedians == {Median(data_raw[channelnames[k]]) : k \in DOMAIN channelnames}

MaxChannelMedian ==
    CHOOSE m \in ChannelMedians : \A x \in ChannelMedians : ~FGt(x, m)

FreshlyScaled == lastop \in {"init", "set_scaling"}

\* C1: after construction and after every later set_scaling, the channel
\* scale is the maximum over the named channels of the channel's median in
\* the raw table.
C1_ChannelScaleIsMaxMedian ==
    (FreshlyScaled /\ DataModelInvariant) => channelscale = MaxChannelMedian

\* C1's case: the table was changed, set_scaling ran again, and the second
\* of two channels with different medians gives the scale.
C1_Witness ==
    /\ lastop = "set_scaling" /\ nmut > 0
    /\ channelnames = <<"spend_a", "spend_b">>
    /\ FGt(Median(data_raw["spend_b"]), Median(data_raw["spend_a"]))
    /\ channelscale = Median(data_raw["spend_b"])

\* the table of C2's scenario: ten rows, channels spend_a and spend_b with
\* median 100 each, sales with median 500
C2_Scenario ==
    /\ FreshlyScaled
    /\ channelnames = <<"spend_a", "spend_b">>
    /\ Len(data_raw[salesname]) = 10
    /\ Median(data_raw["spend_a"]) = Num(100)
    /\ Median(data_raw["spend_b"]) = Num(100)
    /\ Median(data_raw[salesname]) = Num(500)

\* C2 as stated: in the scenario the channel scale is 100 and the sales
\* scale is 5.0.
C2_SalesScaleIsFive ==
    C2_Scenario => channelscale = Num(100) /\ salesscale = Num(5)

\* C2 amended: in the scenario the channel scale is 100 and the sales scale
\* is 500, the median of the sales column as the division of the channel
\* columns left it; the channel columns are the raw ones divided by 100 and
\* the sales column the raw one divided by 500.
C2_SalesScaleIsSalesMedian ==
    C2_Scenario =>
        /\ channelscale = Num(100)
        /\ salesscale = Num(500)
        /\ \A c \in {"spend_a", "spend_b"} :
             data_scaled[c] = DivColumn(data_raw[c], Num(100))
        /\ data_scaled[salesname] = DivColumn(data_raw[salesname], Num(500))

\* C2's case: the scenario's table, just constructed.
C2_Witness == C2_Scenario /\ lastop = "init" /\ channelscale = Num(100)

(***************************************************************************)
(* Claims about an instance's life (checked under Spec).                   *)
(***************************************************************************)
Straight == cls = "MMMChannelsStraight"
Confounder == cls = "MMMChannelsStraightConfounder"
Metrics == cls = "MMMFbGoogleMetrics"

\* C3: on a straight model with adstock/saturation enabled, once a graph was
\* built, 'alpha' and 'lam' are each listed exactly once in fittedparmnames,
\* whatever define_model and fit calls were made; with it disabled neither
\* is ever listed.
C3_AdstockNamesOnce ==
    Straight =>
        /\ (allowAdstockAndSat /\ model # None) =>
              Count(fittedparmnames, "alpha") = 1 /\ Count(fittedparmnames, "lam") = 1
        /\ ~allowAdstockAndSat =>
              ~Contains(fittedparmnames, "alpha") /\ ~Contains(fittedparmnames, "lam")

GraphNames(g) == g.data \cup g.free \cup g.deterministic \cup g.observed

\* C4: on a straight model with the intercept disabled, a built graph
\* declares nothing named 'intercept' and fittedparmnames never lists it;
\* with the intercept enabled, once a graph was built, fittedparmnames lists
\* 'intercept' exactly once, whatever define_model and fit calls were made.
C4_InterceptNamedOnce ==
    Straight =>
        /\ ~allowIntercept =>
              /\ model # None => "intercept" \notin GraphNames(model[1])
              /\ ~Contains(fittedparmnames, "intercept")
        /\ (allowIntercept /\ model # None) =>
              /\ "intercept" \in model[1].free
              /\ Count(fittedparmnames, "intercept") = 1

\* C4's case: the intercept is enabled and define_model has just built the
\* instance's second graph.
C4_Witness ==
    /\ Straight /\ allowIntercept
    /\ lastop = "define_model" /\ ndefine = 2
    /\ Count(fittedparmnames, "intercept") = 1

\* C5: on every variant the graph is absent after construction; a fit that
\* finds no graph builds one before inference runs (the graph is there even
\* when inference raises); a fit that finds a graph keeps it and does not
\* call define_model; fit builds at most one graph in the instance's life;
\* and a fit whose inference succeeds leaves the posterior populated.
C5_GraphBuiltOnceByFit ==
    /\ [](lastop = "init" => model = None)
    /\ [](nfitbuilds <= 1)
    /\ [][(lastop' = "fit" /\ cls # "MMM") =>
             /\ model = None =>
                   /\ model' # None
                   /\ ndefine' = ndefine + 1
             /\ model # None =>
                   /\ model' = model
                   /\ ndefine' = ndefine
                   /\ fittedparmnames' = fittedparmnames
             /\ raised' = "none" => idata' # None]_vars

\* C5's case: a fit whose inference raised, after an earlier fit that built
\* the graph and stored a posterior; no define_model call but that fit's.
C5_Witness ==
    /\ cls # "MMM"
    /\ lastop = "fit" /\ raised = "SamplingError"
    /\ idata # None
    /\ nfitbuilds = 1 /\ ndefine = 1

\* C6: on the base class define_model and get_back_scaled_idata raise
\* NotImplementedError, and so does fit, which builds nothing, does not try
\* again and stores nothing: the graph stays absent and the posterior unset.
C6_BaseClassRaises ==
    cls = "MMM" =>
        /\ model = None /\ idata = None
        /\ ndefine = 0 /\ nfitbuilds = 0
        /\ lastop \in {"define_model", "get_back_scaled_idata", "fit"} =>
              raised = "NotImplementedError"

\* C6's case: fit was called on a base-class instance.
C6_Witness == cls = "MMM" /\ lastop = "fit" /\ raised = "NotImplementedError"

BackScaledNow == lastop = "get_back_scaled_idata" /\ raised = "none"

MetricsParms == {"beta_fb", "beta_google", "intercept", "sigma"}

\* what the metrics model's back-scaling returns for the same fitted values
\* and scale factors
MetricsBackScalingOfSame ==
    BackScaledMetrics(Restrict(idata[1], MetricsParms), salesscale, channelscale)

\* the factors of C7: beta_fb and beta_google times sales scale over channel
\* scale in the confounder model, times the sales scale in the metrics model
C7_Factors ==
    \A n \in {"beta_fb", "beta_google"} :
        /\ Confounder =>
              ret[1][n] = FDiv(FMul(idata[1][n], salesscale), channelscale)
        /\ Metrics => ret[1][n] = FMul(idata[1][n], salesscale)

\* C7 as stated: the factors, and for the same fitted value and scale
\* factors with a channel scale other than 1 the two variants return
\* different coefficients.
C7_VariantsDiffer ==
    BackScaledNow =>
        /\ C7_Factors
        /\ (Confounder /\ channelscale # Num(1)) =>
              \A n \in {"beta_fb", "beta_google"} :
                  ret[1][n] # MetricsBackScalingOfSame[n]

\* C7 amended: the factors, and for the same fitted value and scale factors
\* with a channel scale other than 1 and a non-zero product of fitted value
\* and sales scale the two variants return different coefficients.
C7_VariantsDifferUnlessZero ==
    BackScaledNow =>
        /\ C7_Factors
        /\ (Confounder /\ channelscale # Num(1)) =>
              \A n \in {"beta_fb", "beta_google"} :
                  FMul(idata[1][n], salesscale) # Num(0) =>
                      ret[1][n] # MetricsBackScalingOfSame[n]

\* C7's case: a confounder model with channel scale 3 back-scaled a
\* non-zero beta_fb.
C7_Witness ==
    /\ BackScaledNow /\ Confounder
    /\ channelscale = Num(3)
    /\ idata[1].beta_fb = <<45, 32>>
    /\ ret[1].beta_fb # MetricsBackScalingOfSame.beta_fb

\* the scaling factor the design gives each parameter of each variant
FactorKind(n) ==
    CASE n \in {"alpha", "lam", "beta_fb_google"} -> "none"
      [] n = "intercept" -> "sales"
      [] n \in {"sigma", "sigma_google", "spend_google_0"} -> "channel"
      [] n = "beta" -> "sales/channel"
      [] n \in {"beta_fb", "beta_google"} ->
            IF Confounder THEN "sales/channel" ELSE "sales"

\* the factor undone on one number
Undo(kind, x) ==
    CASE kind = "none" -> x
      [] kind = "sales" -> FDiv(x, salesscale)
      [] kind = "channel" -> FDiv(x, channelscale)
      [] kind = "sales/channel" -> FDiv(FMul(x, channelscale), salesscale)

\* a parameter's numbers: the vector's elements, or the scalar alone
Elements(n, x) ==
    IF Straight /\ n \in {"beta", "alpha", "lam"} THEN x ELSE <<x>>

NonZeroScales ==
    /\ IsFinite(channelscale) /\ channelscale # Num(0)
    /\ IsFinite(salesscale) /\ salesscale # Num(0)

\* x is v up to a relative error of four machine epsilons
Close(x, v) ==
    /\ IsFinite(x) /\ IsFinite(v)
    /\ Abs(x[1] * v[2] - v[1] * x[2]) * Pow2(Precision - 1) <= 4 * Abs(v[1]) * x[2]

C9_ExpectedMuY(p, tbl, r) ==
    FAdd(FAdd(FMul(p.beta_fb, tbl["spend_fb"][r]),
              FMul(p.beta_google, tbl["spend_google"][r])),
         p.intercept)

\* C9: in the confounder model's graph mu_y is, on every row and for every
\* value of the parameters, the Facebook contribution plus the Google
\* contribution plus the intercept, counted once.
C9_InterceptCountedOnce ==
    (Confounder /\ lastop = "plot_posterior_predictive" /\ raised = "none") =>
        \A r \in Rows :
            ret[1].mu_y[r] = C9_ExpectedMuY(idata[1], data_scaled, r)

BackScalingCalls == {"get_back_scaled_idata", "plot_parm_dist"}

\* C10: on every variant a get_back_scaled_idata call (plot_parm_dist makes
\* one) leaves the stored posterior, both scale factors, the raw table and
\* the scaled table as they were; what it returns is the back-scaling of the
\* stored posterior, applied once; consecutive calls return equal results.
C10_BackScalingIsDerived ==
    /\ [](BackScaledNow => ret = Some(BackScaled(idata[1])))
    /\ [][lastop' \in BackScalingCalls =>
             /\ UNCHANGED <<idata, channelscale, salesscale, data_raw, data_scaled>>
             /\ (BackScaledNow /\ lastop' = lastop /\ raised' = raised) =>
                   ret' = ret]_vars

\* C10's case: a call returned a posterior that differs from the stored one,
\* which is still the fitted one.
C10_Witness ==
    /\ BackScaledNow /\ Confounder
    /\ ret[1] # idata[1]
    /\ idata[1].intercept = Num(1)
    /\ ret[1].intercept = salesscale

====
